---- MODULE Spec2Model ----
(***************************************************************************)
(* Range-proof engine of src/blsct/arith/range_proof/range_proof.cpp:      *)
(* RangeProof::Prove, RangeProof::InnerProductArgument, RangeProof::Verify *)
(* and RangeProof::RecoverTxIns.                                           *)
(*                                                                         *)
(* Scalars are the integers modulo the prime P.  A group element is its    *)
(* vector of coefficients over the independent generators G, H, Gi[], Hi[] *)
(* (two group elements are equal iff their coefficients are equal).        *)
(* The configured sizes of Config are scaled down; the hard-coded          *)
(* numbers of the source (23 bytes, 64 bits, salts) are scaled with them.  *)
(***************************************************************************)
EXTENDS Integers, Sequences, FiniteSets, TLC

(***************************************************************************)
(* Sizes                                                                   *)
(***************************************************************************)
\* order of the scalar field (a prime above 2^(MsgChunkBytes*ByteBits + InputValueBits))
P == 257
\* Config::m_input_value_bits (64 in the source's comments), a power of two
InputValueBits == 4
\* Config::m_max_input_values (not a power of two, so that a value count is
\* rounded up)
MaxInputValues == 3
\* Config::m_max_message_size
MaxMessageSize == 3
\* Config::m_max_prove_tries
MaxProveTries == 2
\* width of one message byte
ByteBits == 2
\* the leading message chunk: "23" in Prove
MsgChunkBytes == 2
\* the "64" of RecoverTxIns' mask 0xFFFFFFFFFFFFFFFF and of its shift
RecoverValueBits == 4
\* bytes of a serialised Scalar (Scalar::GetVch)
VchBytes == 5
\* salt of the first per-value blinding factor: "100 + i" in Prove
GammaSalt == 100
\* the salts of Prove's derivations from the nonce
ProveSaltAlpha == 1
ProveSaltRho == 2
ProveSaltTau1 == 3
ProveSaltTau2 == 4
\* the salts of RecoverTxIns' derivations from the nonce
RecoverSaltAlpha == 1
RecoverSaltRho == 2
\* tau1 derived with the salt of tau2
RecoverSaltTau1_AsTau2 == ProveSaltTau2
RecoverSaltTau1 == 3
RecoverSaltTau2 == 4
RecoverSaltGamma0 == 100

\* bounds of the explored inputs
NumNonces == 2
MaxBatch == 2
MaxTxIns == 2
\* round challenges of a proof whose w_cache is built
MaxRounds == 3
\* threads constructing a RangeProof
NumThreads == 3

(***************************************************************************)
(* Scalar arithmetic                                                       *)
(***************************************************************************)
Min(a, b) == IF a <= b THEN a ELSE b

RECURSIVE Pow2(_)
Pow2(n) == IF n <= 0 THEN 1 ELSE 2 * Pow2(n - 1)

Add(a, b) == (a + b) % P
Sub(a, b) == (a + P - (b % P)) % P
Mul(a, b) == (a * b) % P
Square(a) == Mul(a, a)
\* Scalar::Invert of a non-zero scalar
Invert(a) == CHOOSE i \in 1..(P - 1) : (i * a) % P = 1

RECURSIVE PowS(_, _)
PowS(k, e) == IF e = 0 THEN 1 ELSE Mul(k, PowS(k, e - 1))

\* Scalar::operator<< doubles in the field; >>, & and | act on the integer
ShiftLeft(s, n) == (s * Pow2(n)) % P
ShiftRight(s, n) == s \div Pow2(n)
RECURSIVE BitAnd(_, _)
BitAnd(a, b) ==
    IF a = 0 \/ b = 0 THEN 0
    ELSE 2 * BitAnd(a \div 2, b \div 2) + (IF a % 2 = 1 /\ b % 2 = 1 THEN 1 ELSE 0)
RECURSIVE BitOr(_, _)
BitOr(a, b) ==
    IF a = 0 THEN b
    ELSE IF b = 0 THEN a
    ELSE 2 * BitOr(a \div 2, b \div 2) + (IF a % 2 = 1 \/ b % 2 = 1 THEN 1 ELSE 0)

\* Scalar(std::vector<uint8_t>): the bytes as a big-endian integer
RECURSIVE BytesToScalar(_)
BytesToScalar(bs) ==
    IF Len(bs) = 0 THEN 0
    ELSE (BytesToScalar(SubSeq(bs, 1, Len(bs) - 1)) * Pow2(ByteBits) + bs[Len(bs)]) % P

\* Scalar::GetVch: the fixed-width big-endian serialisation
GetVch(s) ==
    [i \in 1..VchBytes |-> (s \div Pow2(ByteBits * (VchBytes - i))) % Pow2(ByteBits)]

\* Scalar::GetBits: the value in binary, most significant bit first, no leading zeros
RECURSIVE GetBits(_)
GetBits(v) ==
    IF v < 2 THEN <<v>> ELSE Append(GetBits(v \div 2), v % 2)

\* G1Point::GetHashWithSalt: a scalar derived from the nonce and the salt;
\* a digest is never inside the small value window
GetHashWithSalt(n, salt) ==
    Pow2(InputValueBits) + ((n * 89 + salt * 37 + n * salt) % (P - Pow2(InputValueBits)))

RECURSIVE Log2(_)
Log2(n) == IF n <= 1 THEN 0 ELSE 1 + Log2(n \div 2)

RECURSIVE PowerOf2From(_, _)
PowerOf2From(p, n) == IF p >= n THEN p ELSE PowerOf2From(2 * p, n)
GetFirstPowerOf2GreaterOrEqTo(n) == PowerOf2From(1, n)

(***************************************************************************)
(* Scalars (vectors).  An element-wise operation on vectors of different   *)
(* lengths combines the common prefix.                                     *)
(***************************************************************************)
VAdd(u, v) == [i \in 1..Min(Len(u), Len(v)) |-> Add(u[i], v[i])]
VSub(u, v) == [i \in 1..Min(Len(u), Len(v)) |-> Sub(u[i], v[i])]
VMul(u, v) == [i \in 1..Min(Len(u), Len(v)) |-> Mul(u[i], v[i])]
VScale(u, s) == [i \in 1..Len(u) |-> Mul(u[i], s)]
RECURSIVE VSum(_)
VSum(u) == IF Len(u) = 0 THEN 0 ELSE Add(u[1], VSum(Tail(u)))
To(u, n) == SubSeq(u, 1, Min(n, Len(u)))
From(u, n) == SubSeq(u, Min(n, Len(u)) + 1, Len(u))
FirstNPow(k, n, from) == [i \in 1..n |-> PowS(k, from + i - 1)]
RepeatN(k, n) == [i \in 1..n |-> k]
\* Scalars::RandVec(n, true): n non-zero scalars from the random source
RandVec(n, seed) == [i \in 1..n |-> 1 + ((seed * 31 + i * 7 + seed * i) % (P - 1))]

(***************************************************************************)
(* Group elements                                                          *)
(***************************************************************************)
Point(g, h, gi, hi) == [g |-> g, h |-> h, gi |-> gi, hi |-> hi]
PointGH(g, h) == Point(g, h, <<>>, <<>>)
Unity == PointGH(0, 0)

\* serialisation of a transcript item to the number the hash absorbs
RECURSIVE WeightedSum(_, _)
WeightedSum(u, w) ==
    IF Len(u) = 0 THEN 0 ELSE (u[1] * w + WeightedSum(Tail(u), w + 1)) % P
ItemDigest(it) ==
    IF it.kind = "scalar" THEN it.val.g
    ELSE (it.val.g + 3 * it.val.h + 5 * WeightedSum(it.val.gi, 1)
                   + 7 * WeightedSum(it.val.hi, 2)) % P
ScalarItem(s) == [kind |-> "scalar", val |-> PointGH(s, 0)]
PointItem(p) == [kind |-> "point", val |-> p]

\* CHashWriter::GetHash over everything appended so far (never zero by itself)
RECURSIVE Absorb(_, _)
Absorb(t, i) ==
    IF i > Len(t) THEN 0 ELSE (i * (ItemDigest(t[i]) + 1) + Absorb(t, i + 1)) % (P - 1)
Digest(t) == 1 + Absorb(t, 1)

(***************************************************************************)
(* Inputs explored                                                         *)
(***************************************************************************)
Nonces == 1..NumNonces
Bytes == {0, Pow2(ByteBits) - 1}
SingleValues == {0, 9, Pow2(InputValueBits) - 1}
\* the draws of the random source an attempt can see
RandSeeds == {1, 2}

RECURSIVE SeqsUpTo(_, _)
SeqsUpTo(S, n) ==
    IF n = 0 THEN {<<>>}
    ELSE LET shorter == SeqsUpTo(S, n - 1)
         IN  shorter \cup {Append(q, e) : q \in {w \in shorter : Len(w) = n - 1}, e \in S}

\* value vectors: empty, one value, up to one more than the maximum
ValueVecs ==
    {<<>>} \cup {<<v>> : v \in SingleValues}
    \cup {[i \in 1..n |-> (6 + 3 * i) % Pow2(InputValueBits)] : n \in 2..(MaxInputValues + 1)}
\* messages: every length up to one byte over the maximum
Messages == SeqsUpTo(Bytes, MaxMessageSize + 1)

(***************************************************************************)
(* State                                                                   *)
(***************************************************************************)
VARIABLES
    pc,                 \* where the caller and the running call are
    err,                \* what() of the exception that ended the call, or "none"
    vs, nonce, message, \* Prove's arguments
    gammas,             \* Prove: per-value blinding factors
    gens_looked_up,     \* Prove: m_gf.GetInstance(token_id) has been called
    transcript,         \* Prove: everything appended to the CHashWriter
    zeroed,             \* transcripts a synthetic hash maps to the zero challenge
    aL, aR,             \* Prove: the bit vector and aL - 1
    num_tries,          \* Prove: the try counter
    local,              \* Prove: the locals of the current attempt
    proof,              \* Prove: the Proof under construction / returned
    ipa,                \* InnerProductArgument: a_prime, b_prime, n_prime, round, xs
    indexed_proofs,     \* Verify: the batch
    verify,             \* Verify: how far it got and what it returned
    loop2,              \* VerifyLoop2: the construction of w_cache for one proof
    tx_ins,             \* RecoverTxIns: the inputs
    recovered_tx_ins,   \* RecoverTxIns: the returned list
    recover_status,     \* RecoverTxIns: "none", "returned" or "threw"
    thr,                \* constructor: where each constructing thread is
    m_is_initialized,   \* RangeProof::m_is_initialized
    m_init_mutex,       \* RangeProof::m_init_mutex: the thread holding it, or 0
    init_calls,         \* how often MclInitializer::Init / G1Point::Init have run
    table_writes        \* how often each static table has been written

proveVars == <<vs, nonce, message, gammas, gens_looked_up, transcript, zeroed,
               aL, aR, num_tries, local, proof, ipa>>
verifyVars == <<indexed_proofs, verify, loop2>>
recoverVars == <<tx_ins, recovered_tx_ins, recover_status>>
ctorVars == <<thr, m_is_initialized, m_init_mutex, init_calls, table_writes>>
callVars == <<pc, err, proveVars, verifyVars, recoverVars>>
vars == <<callVars, ctorVars>>

EmptyProof ==
    [Vs |-> <<>>, A |-> Unity, S |-> Unity, T1 |-> Unity, T2 |-> Unity,
     tau_x |-> 0, mu |-> 0, t_hat |-> 0, t |-> 0,
     Ls |-> <<>>, Rs |-> <<>>, a |-> 0, b |-> 0]

NoLocal ==
    [alpha |-> 0, rho |-> 0, sL |-> <<>>, sR |-> <<>>, y |-> 0, z |-> 0, x |-> 0,
     x_ip |-> 0, l0 |-> <<>>, l1 |-> <<>>, r0 |-> <<>>, r1 |-> <<>>,
     t1 |-> 0, t2 |-> 0, tau1 |-> 0, tau2 |-> 0, l |-> <<>>, r |-> <<>>]

NoIpa == [a_prime |-> <<>>, b_prime |-> <<>>, n_prime |-> 0, round |-> 0, xs |-> <<>>]

NoVerify == [stage |-> "none", result |-> "none", num_rounds |-> 0]

NoLoop2 == [at |-> "none", ws |-> <<>>, inv_ws |-> <<>>, num_rounds |-> 0,
            w_cache |-> <<>>, j |-> 0, s |-> 0]

Threads == 1..NumThreads
Tables == {"m_one", "m_two", "m_two_pows", "m_inner_prod_ones_and_two_pows"}

\* no call of Prove, Verify or RecoverTxIns has been made
NoCalls ==
    /\ pc = "idle"
    /\ err = "none"
    /\ vs = <<>> /\ nonce = 0 /\ message = <<>>
    /\ gammas = <<>>
    /\ gens_looked_up = FALSE
    /\ transcript = <<>>
    /\ zeroed = {}
    /\ aL = <<>> /\ aR = <<>>
    /\ num_tries = 0
    /\ local = NoLocal
    /\ proof = EmptyProof
    /\ ipa = NoIpa
    /\ indexed_proofs = <<>>
    /\ verify = NoVerify
    /\ tx_ins = <<>>
    /\ recovered_tx_ins = <<>>
    /\ recover_status = "none"

\* the calls are made on a RangeProof whose constructor has run
Init ==
    /\ NoCalls
    /\ loop2 = NoLoop2
    /\ thr = [t \in Threads |-> IF t = 1 THEN "returned" ELSE "returned_fast"]
    /\ m_is_initialized = TRUE
    /\ m_init_mutex = 0
    /\ init_calls = 1
    /\ table_writes = [k \in Tables |-> 1]

(***************************************************************************)
(* RangeProof's static tables (written by the constructor)                 *)
(***************************************************************************)
m_one == 1
m_two == 2
m_two_pows == FirstNPow(m_two, InputValueBits, 0)
m_inner_prod_ones_and_two_pows == VSum(VMul(RepeatN(m_one, InputValueBits), m_two_pows))

(***************************************************************************)
(* RangeProof::RangeProof, one step per statement and per thread.  The     *)
(* read of m_is_initialized at line 17 is taken as atomic.                 *)
(***************************************************************************)
\* "if (m_is_initialized) return;"
CtorCheck(t) ==
    /\ thr[t] = "start"
    /\ thr' = [thr EXCEPT ![t] = IF m_is_initialized THEN "returned_fast" ELSE "lock"]
    /\ UNCHANGED <<m_is_initialized, m_init_mutex, init_calls, table_writes, callVars>>

\* "boost::lock_guard<boost::mutex> lock(RangeProof::m_init_mutex);"
CtorLock(t) ==
    /\ thr[t] = "lock"
    /\ m_init_mutex = 0
    /\ m_init_mutex' = t
    /\ thr' = [thr EXCEPT ![t] = "init"]
    /\ UNCHANGED <<m_is_initialized, init_calls, table_writes, callVars>>

\* "MclInitializer::Init(); G1Point::Init();"
CtorLibInit(t) ==
    /\ thr[t] = "init"
    /\ init_calls' = init_calls + 1
    /\ thr' = [thr EXCEPT ![t] = "write_one"]
    /\ UNCHANGED <<m_is_initialized, m_init_mutex, table_writes, callVars>>

\* one assignment to a static table
CtorWrite(t, at, table, then) ==
    /\ thr[t] = at
    /\ table_writes' = [table_writes EXCEPT ![table] = @ + 1]
    /\ thr' = [thr EXCEPT ![t] = then]
    /\ UNCHANGED <<m_is_initialized, m_init_mutex, init_calls, callVars>>

CtorWriteOne(t) == CtorWrite(t, "write_one", "m_one", "write_two")
CtorWriteTwo(t) == CtorWrite(t, "write_two", "m_two", "write_two_pows")
CtorWriteTwoPows(t) == CtorWrite(t, "write_two_pows", "m_two_pows", "write_inner_prod")
CtorWriteInnerProd(t) ==
    CtorWrite(t, "write_inner_prod", "m_inner_prod_ones_and_two_pows", "set_flag")

\* "m_is_initialized = true;"
CtorSetFlag(t) ==
    /\ thr[t] = "set_flag"
    /\ m_is_initialized' = TRUE
    /\ thr' = [thr EXCEPT ![t] = "unlock"]
    /\ UNCHANGED <<m_init_mutex, init_calls, table_writes, callVars>>

\* the lock_guard releases the mutex when the constructor returns
CtorUnlock(t) ==
    /\ thr[t] = "unlock"
    /\ m_init_mutex = t
    /\ m_init_mutex' = 0
    /\ thr' = [thr EXCEPT ![t] = "returned"]
    /\ UNCHANGED <<m_is_initialized, init_calls, table_writes, callVars>>


(***************************************************************************)
(* RangeProof::Prove                                                       *)
(***************************************************************************)
\* the message check written with >= : a message of exactly the maximum is refused
ProveArgumentError_OffByOne(values, msg) ==
    IF Len(msg) >= MaxMessageSize THEN "message size is too large"
    ELSE IF Len(values) = 0 THEN "value vector is empty"
    ELSE IF Len(values) > MaxInputValues THEN "number of input values exceeds the maximum"
    ELSE "ok"

\* the three argument checks, in the order of the source; "ok" when none fires
ProveArgumentError(values, msg) ==
    IF Len(msg) > MaxMessageSize THEN "message size is too large"
    ELSE IF Len(values) = 0 THEN "value vector is empty"
    ELSE IF Len(values) > MaxInputValues THEN "number of input values exceeds the maximum"
    ELSE "ok"

num_input_values_power_2 == GetFirstPowerOf2GreaterOrEqTo(Len(vs))
concat_input_values_in_bits == num_input_values_power_2 * InputValueBits

\* the bits of one value followed by the fill up to m_input_value_bits
ValueBits(v) ==
    LET bits == GetBits(v)
    IN  bits \o [i \in 1..(InputValueBits - Len(bits)) |-> 0]

RECURSIVE FlattenBits(_)
FlattenBits(values) ==
    IF Len(values) = 0 THEN <<>> ELSE ValueBits(values[1]) \o FlattenBits(Tail(values))

\* the value commitments proof.Vs: H * gamma_i + G * v_i
ValueCommitment(v, gamma) == PointGH(v, gamma)

\* Scalar transcript.GetHash(): zero when the synthetic hash says so
GetHash(t, z0) == IF t \in z0 THEN 0 ELSE Digest(t)

\* lines 122-177: the argument checks, gammas, generators, Vs, aL and aR
ProveCall(values, n, msg) ==
    /\ vs' = values /\ nonce' = n /\ message' = msg
    /\ LET e == ProveArgumentError(values, msg)
       IN  IF e # "ok"
           THEN /\ pc' = "thrown"
                /\ err' = e
                /\ UNCHANGED <<gammas, gens_looked_up, transcript, aL, aR, proof>>
           ELSE LET gs == [i \in 1..Len(values) |-> GetHashWithSalt(n, GammaSalt + (i - 1))]
                    Vs == [i \in 1..Len(values) |-> ValueCommitment(values[i], gs[i])]
                    M  == GetFirstPowerOf2GreaterOrEqTo(Len(values))
                    bits == FlattenBits(values)
                IN  /\ pc' = "try_again"
                    /\ err' = "none"
                    /\ gammas' = gs
                    /\ gens_looked_up' = TRUE
                    /\ proof' = [EmptyProof EXCEPT !.Vs = Vs]
                    /\ transcript' = [i \in 1..Len(values) |-> PointItem(Vs[i])]
                    /\ aL' = bits
                    /\ aR' = VSub(bits, FirstNPow(m_one, M * InputValueBits, 0))
    /\ num_tries' = 0
    /\ UNCHANGED <<zeroed, local, ipa, verifyVars, recoverVars, ctorVars>>

\* the counter compared after the attempt rather than before: one attempt too many
TriesExceeded_OneMore(n) == n > MaxProveTries + 1

\* "++num_tries > Config::m_max_prove_tries"
TriesExceeded(n) == n > MaxProveTries

\* Scalar msg1_v0 = (msg1_scalar << m_input_value_bits) | vs[0]
Msg1(msg) == IF Len(msg) > MsgChunkBytes THEN SubSeq(msg, 1, MsgChunkBytes) ELSE msg
Msg2(msg) == IF Len(msg) > MsgChunkBytes THEN SubSeq(msg, MsgChunkBytes + 1, Len(msg)) ELSE <<>>
PackMsg1V0(msg, v0) == BitOr(ShiftLeft(BytesToScalar(Msg1(msg)), InputValueBits), v0)

\* the transcript started afresh (Vs only) by every attempt
ProveTryAgain_ResetTranscript ==
    /\ pc = "try_again"
    /\ num_tries' = num_tries + 1
    /\ IF TriesExceeded(num_tries + 1)
       THEN /\ pc' = "thrown"
            /\ err' = "exceeded maxinum number of tries"
            /\ UNCHANGED <<local, proof, transcript>>
       ELSE \E seed \in RandSeeds :
            LET alpha == Add(GetHashWithSalt(nonce, ProveSaltAlpha), PackMsg1V0(message, vs[1]))
                sL == RandVec(InputValueBits, 2 * seed - 1)
                sR == RandVec(InputValueBits, 2 * seed)
                rho == GetHashWithSalt(nonce, ProveSaltRho)
                A == Point(0, alpha, aL, aR)
                S == Point(0, rho, sL, sR)
            IN  /\ pc' = "derive_y"
                /\ err' = "none"
                /\ local' = [NoLocal EXCEPT !.alpha = alpha, !.rho = rho,
                                            !.sL = sL, !.sR = sR]
                /\ proof' = [proof EXCEPT !.A = A, !.S = S]
                /\ transcript' = [i \in 1..Len(proof.Vs) |-> PointItem(proof.Vs[i])]
                                     \o <<PointItem(A), PointItem(S)>>
    /\ UNCHANGED <<vs, nonce, message, gammas, gens_looked_up, zeroed, aL, aR, ipa,
                   verifyVars, recoverVars, ctorVars>>

\* lines 179-214: the try counter, alpha, A, sL, sR, rho, S; A and S are appended
ProveTryAgain ==
    /\ pc = "try_again"
    /\ num_tries' = num_tries + 1
    /\ IF TriesExceeded(num_tries + 1)
       THEN /\ pc' = "thrown"
            /\ err' = "exceeded maxinum number of tries"
            /\ UNCHANGED <<local, proof, transcript>>
       ELSE \E seed \in RandSeeds :
            LET alpha == Add(GetHashWithSalt(nonce, ProveSaltAlpha), PackMsg1V0(message, vs[1]))
                sL == RandVec(InputValueBits, 2 * seed - 1)
                sR == RandVec(InputValueBits, 2 * seed)
                rho == GetHashWithSalt(nonce, ProveSaltRho)
                A == Point(0, alpha, aL, aR)
                S == Point(0, rho, sL, sR)
            IN  /\ pc' = "derive_y"
                /\ err' = "none"
                /\ local' = [NoLocal EXCEPT !.alpha = alpha, !.rho = rho,
                                            !.sL = sL, !.sR = sR]
                /\ proof' = [proof EXCEPT !.A = A, !.S = S]
                /\ transcript' = transcript \o <<PointItem(A), PointItem(S)>>
    /\ UNCHANGED <<vs, nonce, message, gammas, gens_looked_up, zeroed, aL, aR, ipa,
                   verifyVars, recoverVars, ctorVars>>

\* lines 216-219: y
ProveDeriveY ==
    /\ pc = "derive_y"
    /\ \E force \in BOOLEAN :
         LET z0 == IF force THEN zeroed \cup {transcript} ELSE zeroed
             y == GetHash(transcript, z0)
         IN  /\ zeroed' = z0
             /\ IF y = 0
                THEN /\ pc' = "try_again"
                     /\ UNCHANGED <<local, transcript>>
                ELSE /\ pc' = "derive_z"
                     /\ local' = [local EXCEPT !.y = y]
                     /\ transcript' = Append(transcript, ScalarItem(y))
    /\ UNCHANGED <<err, vs, nonce, message, gammas, gens_looked_up, aL, aR, num_tries,
                   proof, ipa, verifyVars, recoverVars, ctorVars>>

\* the last term of r(X): bits entries per entry of z_pows
z_n_times_two_n(z_pows) ==
    [j \in 1..(Len(z_pows) * InputValueBits) |->
        Mul(z_pows[((j - 1) \div InputValueBits) + 1],
            m_two_pows[((j - 1) % InputValueBits) + 1])]

\* lines 221-275: z, the polynomials' coefficients, tau1, tau2, T1, T2
ProveDeriveZ ==
    /\ pc = "derive_z"
    /\ \E force \in BOOLEAN :
         LET z0 == IF force THEN zeroed \cup {transcript} ELSE zeroed
             z == GetHash(transcript, z0)
             MN == concat_input_values_in_bits
             z_value_total_bits == FirstNPow(z, MN, 0)
             l0 == VSub(aL, z_value_total_bits)
             l1 == local.sL
             z_pows == FirstNPow(z, MN, 2)
             y_value_total_bits == FirstNPow(local.y, MN, 0)
             r0 == VAdd(VMul(y_value_total_bits, VAdd(aR, z_value_total_bits)),
                        z_n_times_two_n(z_pows))
             r1 == VMul(y_value_total_bits, local.sR)
             t1 == Add(VSum(VMul(l0, r1)), VSum(VMul(l1, r0)))
             t2 == VSum(VMul(l1, r1))
             tau1 == Add(GetHashWithSalt(nonce, ProveSaltTau1), BytesToScalar(Msg2(message)))
             tau2 == GetHashWithSalt(nonce, ProveSaltTau2)
             T1 == PointGH(t1, tau1)
             T2 == PointGH(t2, tau2)
         IN  /\ zeroed' = z0
             /\ IF z = 0
                THEN /\ pc' = "try_again"
                     /\ UNCHANGED <<local, transcript, proof>>
                ELSE /\ pc' = "derive_x"
                     /\ local' = [local EXCEPT !.z = z, !.l0 = l0, !.l1 = l1, !.r0 = r0,
                                               !.r1 = r1, !.t1 = t1, !.t2 = t2,
                                               !.tau1 = tau1, !.tau2 = tau2]
                     /\ proof' = [proof EXCEPT !.T1 = T1, !.T2 = T2]
                     /\ transcript' = transcript \o
                            <<ScalarItem(z), PointItem(T1), PointItem(T2)>>
    /\ UNCHANGED <<err, vs, nonce, message, gammas, gens_looked_up, aL, aR, num_tries,
                   ipa, verifyVars, recoverVars, ctorVars>>

\* the proof completed without the test of (60)
ProveDeriveX_NoSelfCheck ==
    /\ pc = "derive_x"
    /\ \E force \in BOOLEAN :
         LET z0 == IF force THEN zeroed \cup {transcript} ELSE zeroed
             x == GetHash(transcript, z0)
             l == VAdd(local.l0, VScale(local.l1, x))
             r == VAdd(local.r0, VScale(local.r1, x))
             t_hat == VSum(VMul(l, r))
             t0 == VSum(VMul(local.l0, local.r0))
             t_of_x == Add(Add(t0, Mul(local.t1, x)), Mul(local.t2, Square(x)))
             z_pows == FirstNPow(local.z, concat_input_values_in_bits, 2)
             tau_x == Add(Add(Mul(local.tau2, Square(x)), Mul(local.tau1, x)),
                          VSum(VMul(z_pows, gammas)))
             mu == Add(local.alpha, Mul(local.rho, x))
         IN  /\ zeroed' = z0
             /\ IF x = 0
                THEN /\ pc' = "try_again"
                     /\ UNCHANGED <<err, local, transcript, proof>>
                ELSE /\ pc' = "derive_x_ip"
                     /\ UNCHANGED err
                     /\ local' = [local EXCEPT !.x = x, !.l = l, !.r = r]
                     /\ proof' = [proof EXCEPT !.t_hat = t_hat, !.tau_x = tau_x, !.mu = mu]
                     /\ transcript' = transcript \o
                            <<ScalarItem(x), ScalarItem(tau_x), ScalarItem(mu),
                              ScalarItem(proof.t)>>
    /\ UNCHANGED <<vs, nonce, message, gammas, gens_looked_up, aL, aR, num_tries,
                   ipa, verifyVars, recoverVars, ctorVars>>

\* lines 277-304: x, l, r, t_hat, the check of (60), tau_x, mu; x, tau_x, mu and
\* proof.t are appended
ProveDeriveX ==
    /\ pc = "derive_x"
    /\ \E force \in BOOLEAN :
         LET z0 == IF force THEN zeroed \cup {transcript} ELSE zeroed
             x == GetHash(transcript, z0)
             l == VAdd(local.l0, VScale(local.l1, x))
             r == VAdd(local.r0, VScale(local.r1, x))
             t_hat == VSum(VMul(l, r))
             t0 == VSum(VMul(local.l0, local.r0))
             t_of_x == Add(Add(t0, Mul(local.t1, x)), Mul(local.t2, Square(x)))
             z_pows == FirstNPow(local.z, concat_input_values_in_bits, 2)
             tau_x == Add(Add(Mul(local.tau2, Square(x)), Mul(local.tau1, x)),
                          VSum(VMul(z_pows, gammas)))
             mu == Add(local.alpha, Mul(local.rho, x))
         IN  /\ zeroed' = z0
             /\ IF x = 0
                THEN /\ pc' = "try_again"
                     /\ UNCHANGED <<err, local, transcript, proof>>
                ELSE IF t_hat # t_of_x
                THEN /\ pc' = "thrown"
                     /\ err' = "equality didn't hold in (60)"
                     /\ local' = [local EXCEPT !.x = x, !.l = l, !.r = r]
                     /\ proof' = [proof EXCEPT !.t_hat = t_hat]
                     /\ UNCHANGED transcript
                ELSE /\ pc' = "derive_x_ip"
                     /\ UNCHANGED err
                     /\ local' = [local EXCEPT !.x = x, !.l = l, !.r = r]
                     /\ proof' = [proof EXCEPT !.t_hat = t_hat, !.tau_x = tau_x, !.mu = mu]
                     /\ transcript' = transcript \o
                            <<ScalarItem(x), ScalarItem(tau_x), ScalarItem(mu),
                              ScalarItem(proof.t)>>
    /\ UNCHANGED <<vs, nonce, message, gammas, gens_looked_up, aL, aR, num_tries,
                   ipa, verifyVars, recoverVars, ctorVars>>

\* x_ip used without the test for zero
ProveDeriveXip_NoZeroCheck ==
    /\ pc = "derive_x_ip"
    /\ \E force \in BOOLEAN :
         LET z0 == IF force THEN zeroed \cup {transcript} ELSE zeroed
             x_ip == GetHash(transcript, z0)
         IN  /\ zeroed' = z0
             /\ pc' = "ipa"
             /\ local' = [local EXCEPT !.x_ip = x_ip]
             /\ ipa' = [a_prime |-> local.l, b_prime |-> local.r,
                        n_prime |-> concat_input_values_in_bits, round |-> 0,
                        xs |-> <<>>]
    /\ UNCHANGED <<err, vs, nonce, message, gammas, gens_looked_up, transcript, aL, aR,
                   num_tries, proof, verifyVars, recoverVars, ctorVars>>

\* lines 306-310 and 44-52: x_ip, and the initial state of InnerProductArgument
ProveDeriveXip ==
    /\ pc = "derive_x_ip"
    /\ \E force \in BOOLEAN :
         LET z0 == IF force THEN zeroed \cup {transcript} ELSE zeroed
             x_ip == GetHash(transcript, z0)
         IN  /\ zeroed' = z0
             /\ IF x_ip = 0
                THEN /\ pc' = "try_again"
                     /\ UNCHANGED <<local, ipa>>
                ELSE /\ pc' = "ipa"
                     /\ local' = [local EXCEPT !.x_ip = x_ip]
                     /\ ipa' = [a_prime |-> local.l, b_prime |-> local.r,
                                n_prime |-> concat_input_values_in_bits, round |-> 0,
                                xs |-> <<>>]
    /\ UNCHANGED <<err, vs, nonce, message, gammas, gens_looked_up, transcript, aL, aR,
                   num_tries, proof, verifyVars, recoverVars, ctorVars>>

(***************************************************************************)
(* RangeProof::InnerProductArgument, one round per step.  The gi and hi    *)
(* coefficients of a round's L and R are over the folded generators        *)
(* g_prime and h_prime of that round.                                      *)
(***************************************************************************)
IPARound ==
    /\ pc = "ipa"
    /\ ipa.n_prime > 1
    /\ \E force \in BOOLEAN :
         LET n == ipa.n_prime \div 2
             a_prime == ipa.a_prime
             b_prime == ipa.b_prime
             scale_factors == FirstNPow(Invert(local.y), concat_input_values_in_bits, 0)
             cL == VSum(VMul(To(a_prime, n), From(b_prime, n)))
             cR == VSum(VMul(From(a_prime, n), To(b_prime, n)))
             L == Point(0, Mul(cL, local.x_ip), To(a_prime, n),
                        IF ipa.round = 0 THEN VMul(b_prime, To(scale_factors, n))
                                         ELSE From(b_prime, n))
             R == Point(0, Mul(cR, local.x_ip), From(a_prime, n),
                        IF ipa.round = 0 THEN VMul(b_prime, From(scale_factors, n))
                                         ELSE To(b_prime, n))
             Ls == Append(proof.Ls, L)
             Rs == Append(proof.Rs, R)
             t == transcript \o <<PointItem(Ls[ipa.round + 1]), PointItem(Rs[ipa.round + 1])>>
             z0 == IF force THEN zeroed \cup {t} ELSE zeroed
             x == GetHash(t, z0)
         IN  /\ zeroed' = z0
             /\ transcript' = t
             /\ proof' = [proof EXCEPT !.Ls = Ls, !.Rs = Rs]
             /\ IF x = 0
                THEN /\ pc' = "try_again"          \* return false; goto try_again
                     /\ ipa' = [ipa EXCEPT !.n_prime = n]
                ELSE /\ pc' = "ipa"
                     /\ ipa' = [a_prime |-> VAdd(VScale(To(a_prime, n), x),
                                                 VScale(From(a_prime, n), Invert(x))),
                                b_prime |-> VAdd(VScale(To(b_prime, n), Invert(x)),
                                                 VScale(From(b_prime, n), x)),
                                n_prime |-> n,
                                round |-> ipa.round + 1,
                                xs |-> Append(ipa.xs, x)]
    /\ UNCHANGED <<err, vs, nonce, message, gammas, gens_looked_up, aL, aR, num_tries,
                   local, verifyVars, recoverVars, ctorVars>>

\* lines 103-106 and 313: a, b, and Prove returns the proof
IPAReturn ==
    /\ pc = "ipa"
    /\ ipa.n_prime <= 1
    /\ IF Len(ipa.a_prime) = 0 \/ Len(ipa.b_prime) = 0
       THEN /\ pc' = "thrown"
            /\ err' = "index out of range"
            /\ UNCHANGED proof
       ELSE /\ pc' = "returned"
            /\ UNCHANGED err
            /\ proof' = [proof EXCEPT !.a = ipa.a_prime[1], !.b = ipa.b_prime[1]]
    /\ UNCHANGED <<vs, nonce, message, gammas, gens_looked_up, transcript, zeroed, aL, aR,
                   num_tries, local, ipa, verifyVars, recoverVars, ctorVars>>

(***************************************************************************)
(* RangeProof::Verify                                                      *)
(***************************************************************************)
GetInnerProdArgRounds(num_input_values) ==
    Log2(GetFirstPowerOf2GreaterOrEqTo(num_input_values)) + Log2(InputValueBits)

\* "const size_t num_rounds = GetInnerProdArgRounds(Config::m_input_value_bits)"
VerifyNumRounds == GetInnerProdArgRounds(InputValueBits)

\* the size checks without the comparison of Ls and Rs
RejectedBySizes_NoRsCheck(pr, num_rounds) ==
    \/ Len(pr.Vs) = 0
    \/ Len(pr.Vs) > MaxInputValues
    \/ Len(pr.Ls) # num_rounds

\* is this proof rejected by the four size checks
RejectedBySizes(pr, num_rounds) ==
    \/ Len(pr.Vs) = 0
    \/ Len(pr.Vs) > MaxInputValues
    \/ Len(pr.Ls) # num_rounds
    \/ Len(pr.Ls) # Len(pr.Rs)

ValidateProofsBySizes(batch, num_rounds) ==
    \A i \in 1..Len(batch) : ~RejectedBySizes(batch[i].proof, num_rounds)

\* the indexed reads of VerifyLoop2 for one proof, as <<container size, index>>;
\* M, MN and num_rounds are those of ProofWithDerivedValues
VerifyLoop2Accesses(pr, num_rounds) ==
    LET M == GetFirstPowerOf2GreaterOrEqTo(Len(pr.Vs))
        MN == M * InputValueBits
        z_pow_size == M                        \* FirstNPow(p.z, M, 3)
        w_cache_size == Pow2(num_rounds)
    IN  {<<z_pow_size, 0>>}
        \cup {<<z_pow_size, i>> : i \in 1..M}
        \cup {<<z_pow_size, i>> : i \in 0..(Len(pr.Vs) - 1)}
        \cup {<<w_cache_size, i>> : i \in 0..(MN - 1)}
        \cup {<<w_cache_size, (MN - 1) - i>> : i \in 0..(MN - 1)}
        \cup {<<z_pow_size, 2 + (i \div InputValueBits)>> : i \in 0..(MN - 1)}
        \cup {<<InputValueBits, i % InputValueBits>> : i \in 0..(MN - 1)}
        \cup {<<Len(pr.Ls), i>> : i \in 0..(num_rounds - 1)}
        \cup {<<Len(pr.Rs), i>> : i \in 0..(num_rounds - 1)}

OutOfBounds(accesses) == {a \in accesses : a[2] >= a[1]}

\* ProofWithDerivedValues::Build, called by VerifyLoop1 for each proof: the
\* proof's public fields are fed to a fresh transcript in the order the Prover
\* appended them (Vs, A, S, y, z, T1, T2, x, tau_x, mu, t_hat, then L and R of
\* each round) and the challenges are derived on the way
RECURSIVE ReplayRounds(_, _, _, _)
ReplayRounds(t, pr, i, z0) ==
    IF i > Len(pr.Ls) \/ i > Len(pr.Rs) THEN <<>>
    ELSE LET t1 == t \o <<PointItem(pr.Ls[i]), PointItem(pr.Rs[i])>>
         IN  <<GetHash(t1, z0)>> \o ReplayRounds(t1, pr, i + 1, z0)
Build(pr, z0) ==
    LET t_S == [i \in 1..Len(pr.Vs) |-> PointItem(pr.Vs[i])]
                  \o <<PointItem(pr.A), PointItem(pr.S)>>
        y == GetHash(t_S, z0)
        t_y == Append(t_S, ScalarItem(y))
        z == GetHash(t_y, z0)
        t_T2 == t_y \o <<ScalarItem(z), PointItem(pr.T1), PointItem(pr.T2)>>
        x == GetHash(t_T2, z0)
        t_t_hat == t_T2 \o <<ScalarItem(x), ScalarItem(pr.tau_x), ScalarItem(pr.mu),
                              ScalarItem(pr.t_hat)>>
        x_ip == GetHash(t_t_hat, z0)
    IN  [y |-> y, z |-> z, x |-> x, x_ip |-> x_ip, ws |-> ReplayRounds(t_t_hat, pr, 1, z0)]

\* The whole call.  VerifyLoop2 ends without a return statement, so what Verify
\* reads as its result, and what it then does, is undefined: it may return
\* either value or not return at all.
Verify(batch) ==
    /\ indexed_proofs' = batch
    /\ IF ~ValidateProofsBySizes(batch, VerifyNumRounds)
       THEN verify' = [stage |-> "sizes", result |-> "false",
                       num_rounds |-> VerifyNumRounds]
       ELSE \E outcome \in {"true", "false", "crash"} :
                verify' = [stage |-> "loop2", result |-> outcome,
                           num_rounds |-> VerifyNumRounds]
    /\ UNCHANGED <<loop2, pc, err, proveVars, recoverVars, ctorVars>>

\* proofs a caller can put together by hand: sizes of Vs, Ls, Rs, arbitrary contents
CraftedProof(nVs, nLs, nRs) ==
    [EmptyProof EXCEPT !.Vs = [i \in 1..nVs |-> PointGH(1, 1)],
                       !.Ls = [i \in 1..nLs |-> PointGH(0, 1)],
                       !.Rs = [i \in 1..nRs |-> PointGH(0, 2)],
                       !.tau_x = 5, !.mu = 6, !.t_hat = 7, !.a = 8, !.b = 9]

\* well-formed sizes, arbitrary contents
ShapedProofs ==
    { CraftedProof(1, VerifyNumRounds, VerifyNumRounds),
      CraftedProof(MaxInputValues, VerifyNumRounds, VerifyNumRounds) }
\* one size wrong
MisshapedProofs ==
    { CraftedProof(0, VerifyNumRounds, VerifyNumRounds),
      CraftedProof(MaxInputValues + 1, VerifyNumRounds, VerifyNumRounds),
      CraftedProof(1, VerifyNumRounds - 1, VerifyNumRounds - 1),
      CraftedProof(1, VerifyNumRounds, VerifyNumRounds + 1) }
CraftedProofs == ShapedProofs \cup MisshapedProofs
\* the proofs mixed into a batch of proofs Prove returned
InvalidProofs ==
    { CraftedProof(1, VerifyNumRounds, VerifyNumRounds),
      CraftedProof(0, VerifyNumRounds, VerifyNumRounds),
      CraftedProof(1, VerifyNumRounds, VerifyNumRounds + 1) }

\* q with e inserted before position i
InsertAt(q, i, e) == SubSeq(q, 1, i - 1) \o <<e>> \o SubSeq(q, i, Len(q))

IndexProofs(ps) == [i \in 1..Len(ps) |-> [index |-> i - 1, proof |-> ps[i]]]

\* batches of crafted proofs, and batches holding the proof Prove returned
\* batches of crafted proofs; and, once Prove has returned a proof, batches of
\* that proof with at most one invalid proof at any position
Batches ==
    IF pc = "returned"
    THEN LET valid == {[i \in 1..n |-> proof] : n \in 1..MaxBatch}
         IN  {IndexProofs(q) : q \in valid}
             \cup {IndexProofs(InsertAt(q[1], q[2], q[3])) :
                      q \in {w \in valid \X (1..(MaxBatch + 1)) \X InvalidProofs :
                                 w[2] <= Len(w[1]) + 1}}
    ELSE {IndexProofs(q) : q \in SeqsUpTo(CraftedProofs, MaxBatch)}

\* a caller verifies once, before or after Prove has returned a proof
NoCallMade == verify.stage = "none" /\ recover_status = "none"

VerifyCall ==
    /\ pc \in {"idle", "returned"}
    /\ NoCallMade
    /\ \E batch \in Batches : Verify(batch)

(***************************************************************************)
(* VerifyLoop2: the construction of w_cache (lines 414-425) for one proof  *)
(* with the round challenges ws and their inverses inv_ws.  w_cache[i] of  *)
(* the source is w_cache[i + 1] here.                                      *)
(***************************************************************************)
\* the challenges a proof can carry
RoundChallenges == {2, 3, 5}
ChallengeVecs == {q \in SeqsUpTo(RoundChallenges, MaxRounds) : Len(q) >= 1}

\* "std::vector<Scalar> w_cache(1 << p.num_rounds, 1); w_cache[0] = p.inv_ws[0];
\*  w_cache[1] = p.ws[0];"
WCacheAlloc ==
    /\ loop2.at = "alloc"
    /\ loop2' = [loop2 EXCEPT
                   !.w_cache = [i \in 1..Pow2(loop2.num_rounds) |->
                                   IF i = 1 THEN loop2.inv_ws[1]
                                   ELSE IF i = 2 THEN loop2.ws[1] ELSE 1],
                   !.j = 1,
                   !.at = "outer"]
    /\ UNCHANGED <<indexed_proofs, verify, pc, err, proveVars, recoverVars, ctorVars>>

\* "for (size_t j = 1; j < p.num_rounds; ++j) { const size_t sl = 1<<(j+1);"
WCacheOuter ==
    /\ loop2.at = "outer"
    /\ loop2' = IF loop2.j < loop2.num_rounds
                THEN [loop2 EXCEPT !.s = Pow2(loop2.j + 1), !.at = "inner"]
                ELSE [loop2 EXCEPT !.at = "done"]
    /\ UNCHANGED <<indexed_proofs, verify, pc, err, proveVars, recoverVars, ctorVars>>

\* the two assignments with the factors exchanged
WCachePair_Exchanged(c, s, w, w_inv) ==
    LET c1 == [c EXCEPT ![s + 1] = Mul(c[(s \div 2) + 1], w_inv)]
    IN  [c1 EXCEPT ![s] = Mul(c1[(s \div 2) + 1], w)]

\* "w_cache[s] = w_cache[s/2] * p.ws[j]; w_cache[s-1] = w_cache[s/2] * p.inv_ws[j];"
WCachePair(c, s, w, w_inv) ==
    LET c1 == [c EXCEPT ![s + 1] = Mul(c[(s \div 2) + 1], w)]
    IN  [c1 EXCEPT ![s] = Mul(c1[(s \div 2) + 1], w_inv)]

\* "for (size_t s = sl; s-- > 0; --s) { ... }" and the "++j" that follows the loop
WCacheInner ==
    /\ loop2.at = "inner"
    /\ loop2' = IF loop2.s > 0
                THEN [loop2 EXCEPT
                        !.w_cache = WCachePair(loop2.w_cache, loop2.s - 1,
                                               loop2.ws[loop2.j + 1],
                                               loop2.inv_ws[loop2.j + 1]),
                        !.s = loop2.s - 2]
                ELSE [loop2 EXCEPT !.j = loop2.j + 1, !.at = "outer"]
    /\ UNCHANGED <<indexed_proofs, verify, pc, err, proveVars, recoverVars, ctorVars>>

(***************************************************************************)
(* RangeProof::RecoverTxIns                                                *)
(***************************************************************************)
\* Serialize given Scalar, drop preceeding 0s and return
RECURSIVE DropLeadingZeros(_)
DropLeadingZeros(vch) ==
    IF Len(vch) = 0 THEN <<>>
    ELSE IF vch[1] # 0 THEN vch
    ELSE DropLeadingZeros(Tail(vch))
GetTrimmedVch(s) == DropLeadingZeros(GetVch(s))

\* "tx_in.Vs.Size() == 0 || !Ls_Rs_valid"
RecoverShapeSkipped(tx_in) ==
    LET Ls_Rs_valid == Len(tx_in.Ls) > 0 /\ Len(tx_in.Ls) = Len(tx_in.Rs)
    IN  Len(tx_in.Vs) = 0 \/ ~Ls_Rs_valid

\* "(gens.G.get() * input_value0_gamma) + (gens.H * input_value0)"
RecoverCommitment(input_value0_gamma, input_value0) ==
    PointGH(input_value0_gamma, input_value0)

RecoverMessageV0(tx_in) ==
    Sub(Sub(tx_in.mu, Mul(GetHashWithSalt(tx_in.nonce, RecoverSaltRho), tx_in.x)),
        GetHashWithSalt(tx_in.nonce, RecoverSaltAlpha))
\* a mask one bit short of the window
RecoverValue0_NarrowMask(tx_in) ==
    BitAnd(RecoverMessageV0(tx_in), Pow2(RecoverValueBits - 1) - 1)

\* "message_v0 & Scalar(0xFFFFFFFFFFFFFFFF)"
RecoverValue0(tx_in) == BitAnd(RecoverMessageV0(tx_in), Pow2(RecoverValueBits) - 1)

\* the comparison inverted: an input is skipped when the commitments are equal
RecoverCommitmentSkipped_Inverted(tx_in) ==
    RecoverCommitment(GetHashWithSalt(tx_in.nonce, RecoverSaltGamma0), RecoverValue0(tx_in))
        = tx_in.Vs[1]

\* "if (input_value0_commitment != tx_in.Vs[0]) continue"
RecoverCommitmentSkipped(tx_in) ==
    RecoverCommitment(GetHashWithSalt(tx_in.nonce, RecoverSaltGamma0), RecoverValue0(tx_in))
        # tx_in.Vs[1]

\* "((tx_in.tau_x - (tau2 * tx_in.x.Square()) - (tx_in.z.Square() *
\* input_value0_gamma)) * x_inv) - tau1" (x is not zero)
RecoverMsg2Scalar(tx_in) ==
    LET tau1 == GetHashWithSalt(tx_in.nonce, RecoverSaltTau1)
        tau2 == GetHashWithSalt(tx_in.nonce, RecoverSaltTau2)
        input_value0_gamma == GetHashWithSalt(tx_in.nonce, RecoverSaltGamma0)
        x_inv == Invert(tx_in.x)
    IN  Sub(Mul(Sub(Sub(tx_in.tau_x, Mul(tau2, Square(tx_in.x))),
                    Mul(Square(tx_in.z), input_value0_gamma)),
                x_inv),
            tau1)

\* the entry pushed for an input that passed both checks (x is not zero)
RecoveredEntry(tx_in) ==
    LET input_value0_gamma == GetHashWithSalt(tx_in.nonce, RecoverSaltGamma0)
        msg1 == GetTrimmedVch(ShiftRight(RecoverMessageV0(tx_in), RecoverValueBits))
        msg2 == GetTrimmedVch(RecoverMsg2Scalar(tx_in))
    IN  [index |-> tx_in.index, amount |-> RecoverValue0(tx_in),
         gamma |-> input_value0_gamma, message |-> msg1 \o msg2]

\* Scalar::Invert has no result for zero: it throws, which is why
\* InnerProductArgument tests "x == 0" before it calls x.Invert()
InvertThrows(a) == a = 0

\* what the loop body does with one input
RecoverOne(tx_in) ==
    IF RecoverShapeSkipped(tx_in) THEN "skip"
    ELSE IF RecoverCommitmentSkipped(tx_in) THEN "skip"
    ELSE IF InvertThrows(tx_in.x) THEN "throw"
    ELSE "emit"

\* the loop: the entries pushed so far and whether an exception left the function
\* the entry put in front of the list
PushBack_Front(out, entry) == <<entry>> \o out

\* "recovered_tx_ins.push_back(recovered_tx_in)"
PushBack(out, entry) == Append(out, entry)

RECURSIVE RecoverLoop(_, _)
RecoverLoop(ins, out) ==
    IF Len(ins) = 0 THEN [status |-> "returned", out |-> out]
    ELSE LET what == RecoverOne(ins[1])
         IN  IF what = "throw" THEN [status |-> "threw", out |-> <<>>]
             ELSE RecoverLoop(Tail(ins),
                              IF what = "emit" THEN PushBack(out, RecoveredEntry(ins[1]))
                                               ELSE out)

\* the whole call
RecoverTxIns(ins) ==
    /\ tx_ins' = ins
    /\ LET res == RecoverLoop(ins, <<>>)
       IN  /\ recover_status' = res.status
           /\ recovered_tx_ins' = res.out
    /\ UNCHANGED <<pc, err, proveVars, verifyVars, ctorVars>>

\* the fields exported from the proof Prove returned, with the challenges x and z
\* the Prover used, and the nonce the caller holds
ExportedTxIn(n) ==
    [index |-> 0, Vs |-> proof.Vs, Ls |-> proof.Ls, Rs |-> proof.Rs,
     mu |-> proof.mu, tau_x |-> proof.tau_x, x |-> local.x, z |-> local.z, nonce |-> n]

\* inputs a caller can put together by hand
CraftedTxIn(nVs, nLs, nRs, x, matching) ==
    LET base == [index |-> 0, Vs |-> <<>>, Ls |-> [i \in 1..nLs |-> PointGH(0, 1)],
                 Rs |-> [i \in 1..nRs |-> PointGH(0, 2)],
                 mu |-> 50, tau_x |-> 7, x |-> x, z |-> 2, nonce |-> 1]
        first == IF matching
                 THEN RecoverCommitment(GetHashWithSalt(1, RecoverSaltGamma0), RecoverValue0(base))
                 ELSE PointGH(3, 4)
    IN  [base EXCEPT !.Vs = [i \in 1..nVs |-> IF i = 1 THEN first ELSE PointGH(1, 1)]]

CraftedTxIns ==
    { CraftedTxIn(0, 2, 2, 3, FALSE),
      CraftedTxIn(1, 0, 0, 3, TRUE),
      CraftedTxIn(1, 2, 3, 3, TRUE),
      CraftedTxIn(1, 2, 2, 3, FALSE),
      CraftedTxIn(1, 2, 2, 3, TRUE),
      CraftedTxIn(2, 1, 1, 5, TRUE),
      CraftedTxIn(1, 2, 2, 0, TRUE) }

\* the caller numbers the inputs
IndexTxIns(ins) == [i \in 1..Len(ins) |-> [ins[i] EXCEPT !.index = 10 + i]]

TxInLists ==
    IF pc = "returned"
    THEN {<<ExportedTxIn(n)>> : n \in Nonces}
    ELSE {IndexTxIns(q) : q \in SeqsUpTo(CraftedTxIns, MaxTxIns)}

RecoverCall ==
    /\ pc \in {"idle", "returned"}
    /\ NoCallMade
    /\ \E ins \in TxInLists : RecoverTxIns(ins)

(***************************************************************************)
(* Specification                                                           *)
(***************************************************************************)
ProveStart ==
    /\ pc = "idle"
    /\ NoCallMade
    /\ \E values \in ValueVecs, n \in Nonces, msg \in Messages : ProveCall(values, n, msg)

Next ==
    \/ ProveStart
    \/ ProveTryAgain
    \/ ProveDeriveY
    \/ ProveDeriveZ
    \/ ProveDeriveX
    \/ ProveDeriveXip
    \/ IPARound
    \/ IPAReturn
    \/ VerifyCall
    \/ RecoverCall

Spec == Init /\ [][Next]_vars

\* the first constructions of RangeProof of a process, by concurrent threads
CtorInit ==
    /\ NoCalls
    /\ loop2 = NoLoop2
    /\ thr = [t \in Threads |-> "start"]
    /\ m_is_initialized = FALSE
    /\ m_init_mutex = 0
    /\ init_calls = 0
    /\ table_writes = [k \in Tables |-> 0]

CtorNext ==
    \E t \in Threads :
        \/ CtorCheck(t)
        \/ CtorLock(t)
        \/ CtorLibInit(t)
        \/ CtorWriteOne(t)
        \/ CtorWriteTwo(t)
        \/ CtorWriteTwoPows(t)
        \/ CtorWriteInnerProd(t)
        \/ CtorSetFlag(t)
        \/ CtorUnlock(t)

CtorSpec == CtorInit /\ [][CtorNext]_vars

\* the construction of w_cache for every vector of round challenges
WCacheInit ==
    /\ NoCalls
    /\ thr = [t \in Threads |-> IF t = 1 THEN "returned" ELSE "returned_fast"]
    /\ m_is_initialized = TRUE
    /\ m_init_mutex = 0
    /\ init_calls = 1
    /\ table_writes = [k \in Tables |-> 1]
    /\ \E ws \in ChallengeVecs :
          loop2 = [NoLoop2 EXCEPT !.at = "alloc", !.ws = ws,
                                  !.inv_ws = [i \in 1..Len(ws) |-> Invert(ws[i])],
                                  !.num_rounds = Len(ws)]

WCacheNext == WCacheAlloc \/ WCacheOuter \/ WCacheInner

WCacheSpec == WCacheInit /\ [][WCacheNext]_vars

(***************************************************************************)
(* Claims                                                                  *)
(***************************************************************************)
ArgumentErrors ==
    {"message size is too large", "value vector is empty",
     "number of input values exceeds the maximum"}
TriesError == "exceeded maxinum number of tries"
ProveRunning ==
    pc \in {"try_again", "derive_y", "derive_z", "derive_x", "derive_x_ip", "ipa"}
ProveCalled == pc # "idle"
VerifyDone == verify.stage # "none"
RecoverDone == recover_status # "none"

\* C1: round trip.  Whenever Verify has been called on the batch [(0, proof)] of a
\* proof Prove returned, it returned true.
C1_RoundTrip ==
    (VerifyDone /\ pc = "returned" /\ indexed_proofs = <<[index |-> 0, proof |-> proof]>>)
        => verify.result = "true"

\* C2: boundary rejection.  A call of Prove with a message over the maximum, no
\* value or more values than the maximum has thrown one of the three argument
\* errors with no generators looked up, nothing appended to the transcript and
\* nothing committed; a call with arguments within the limits (the limits
\* included) is not ended by an argument error.
C2_BoundaryRejection ==
    ProveCalled =>
        IF Len(message) > MaxMessageSize \/ Len(vs) = 0 \/ Len(vs) > MaxInputValues
        THEN /\ pc = "thrown"
             /\ err \in ArgumentErrors
             /\ ~gens_looked_up
             /\ transcript = <<>>
             /\ proof = EmptyProof
             /\ num_tries = 0
        ELSE /\ err \notin ArgumentErrors
             /\ gens_looked_up
C2_Witness ==
    /\ pc = "thrown"
    /\ Len(message) = MaxMessageSize + 1
    /\ Len(vs) \in 1..MaxInputValues

\* C3: termination of Prove.  An attempt only runs with the try counter in
\* 1..max_prove_tries; the call that ends with every derived challenge zero (no
\* challenge was ever appended to the transcript) has thrown the tries error
\* after exactly max_prove_tries attempts (one A and one S appended per attempt);
\* and every step of a running call either ends the call or decreases a measure
\* bounded below, so the call returns or throws after finitely many steps.
NoChallengeAppended == \A i \in 1..Len(transcript) : transcript[i].kind = "point"
StageRank ==
    CASE pc = "try_again" -> 0
      [] pc = "ipa" -> 1 + Log2(ipa.n_prime)
      [] pc = "derive_x_ip" -> 3 + Log2(MaxInputValues * 2 * InputValueBits)
      [] pc = "derive_x" -> 4 + Log2(MaxInputValues * 2 * InputValueBits)
      [] pc = "derive_z" -> 5 + Log2(MaxInputValues * 2 * InputValueBits)
      [] pc = "derive_y" -> 6 + Log2(MaxInputValues * 2 * InputValueBits)
      [] OTHER -> 0
ProveMeasure ==
    (MaxProveTries + 1 - num_tries) * (8 + Log2(MaxInputValues * 2 * InputValueBits))
        + StageRank
C3_TriesInvariant ==
    /\ num_tries <= MaxProveTries + 1
    /\ (ProveRunning /\ pc # "try_again") => num_tries \in 1..MaxProveTries
    /\ (pc = "thrown" /\ err = TriesError) => num_tries = MaxProveTries + 1
    /\ (pc \in {"thrown", "returned"} /\ err \notin ArgumentErrors /\ NoChallengeAppended)
          => /\ pc = "thrown"
             /\ err = TriesError
             /\ Len(transcript) = Len(vs) + 2 * MaxProveTries
C3_Termination ==
    /\ []C3_TriesInvariant
    /\ [][ProveRunning => (pc' \in {"thrown", "returned"}
                            \/ (ProveRunning' /\ ProveMeasure' < ProveMeasure
                                              /\ ProveMeasure' >= 0))]_vars
C3_Witness ==
    /\ pc = "thrown"
    /\ err = TriesError
    /\ NoChallengeAppended
    /\ Len(transcript) = Len(vs) + 2 * MaxProveTries

\* C4: stage 1 fails closed.  If any proof of the batch, at any position, has no
\* Vs, more Vs than the maximum, a number of Ls other than the expected rounds or
\* a number of Rs other than its number of Ls, Verify returned false at the size
\* check, before the replay and the aggregation.
C4_StageOneFailsClosed ==
    VerifyDone =>
        ((\E i \in 1..Len(indexed_proofs) :
              LET pr == indexed_proofs[i].proof
              IN  \/ Len(pr.Vs) = 0
                  \/ Len(pr.Vs) > MaxInputValues
                  \/ Len(pr.Ls) # verify.num_rounds
                  \/ Len(pr.Ls) # Len(pr.Rs))
            => (verify.stage = "sizes" /\ verify.result = "false"))
C4_Witness ==
    /\ VerifyDone
    /\ Len(indexed_proofs) = 2
    /\ indexed_proofs[1].proof \in ShapedProofs
    /\ Len(indexed_proofs[2].proof.Rs) # Len(indexed_proofs[2].proof.Ls)
    /\ verify.result = "false"

\* C5: Verify never throws.  Every call of Verify ended by returning true or
\* false, and every indexed read of VerifyLoop2 was inside its container.
C5_VerifyNeverThrows ==
    VerifyDone =>
        /\ verify.result \in {"true", "false"}
        /\ verify.stage = "loop2" =>
              \A i \in 1..Len(indexed_proofs) :
                  OutOfBounds(VerifyLoop2Accesses(indexed_proofs[i].proof,
                                                  verify.num_rounds)) = {}

\* C6: batch soundness.  A batch of proofs Prove returned plus one invalid proof
\* verifies false, and a proof Prove returned, verified in a batch of its own,
\* verifies true.
C6_BatchSoundness ==
    (VerifyDone /\ pc = "returned") =>
        /\ (\E i \in 1..Len(indexed_proofs) : indexed_proofs[i].proof \in InvalidProofs)
              => verify.result = "false"
        /\ (Len(indexed_proofs) = 1 /\ indexed_proofs[1].proof = proof)
              => verify.result = "true"

\* C7: recovery correctness.  RecoverTxIns on the fields exported from the proof
\* of one value and a short message without NUL bytes, with the nonce Prove
\* used, returned exactly one entry, with that value and that message.
ShortPlainMessage ==
    /\ Len(message) \in 1..MsgChunkBytes
    /\ \A i \in 1..Len(message) : message[i] # 0
C7_RecoveryCorrectness ==
    (RecoverDone /\ pc = "returned" /\ Len(vs) = 1 /\ ShortPlainMessage
        /\ tx_ins = <<ExportedTxIn(nonce)>>)
        => /\ recover_status = "returned"
           /\ Len(recovered_tx_ins) = 1
           /\ recovered_tx_ins[1].amount = vs[1]
           /\ recovered_tx_ins[1].message = message

\* C8: recovery graceful failure.  RecoverTxIns on the fields exported from a
\* proof Prove returned, with a nonce other than the one Prove used, returned
\* normally and returned the empty list.
WrongNonceRecovery ==
    /\ RecoverDone
    /\ pc = "returned"
    /\ Len(tx_ins) = 1
    /\ tx_ins[1].nonce # nonce
    /\ tx_ins[1] = ExportedTxIn(tx_ins[1].nonce)
C8_RecoveryGracefulFailure ==
    WrongNonceRecovery => (recover_status = "returned" /\ recovered_tx_ins = <<>>)
C8_Witness == WrongNonceRecovery /\ recover_status = "returned"

\* C9: RecoverTxIns cannot fail.  Every call returned normally, whatever the
\* inputs (a zero x included), and no entry of the result belongs to an input
\* with no Vs, no Ls or different numbers of Ls and Rs.
C9_RecoverCannotFail ==
    RecoverDone =>
        /\ recover_status = "returned"
        /\ \A e \in 1..Len(recovered_tx_ins) :
              \A i \in 1..Len(tx_ins) :
                  tx_ins[i].index = recovered_tx_ins[e].index =>
                      /\ Len(tx_ins[i].Vs) > 0
                      /\ Len(tx_ins[i].Ls) > 0
                      /\ Len(tx_ins[i].Ls) = Len(tx_ins[i].Rs)

\* C10: the result of a call that returned is, in the order of the inputs, one
\* entry per input that passes the shape check and whose recomputed first-value
\* commitment equals its Vs[0], carrying that input's index, and nothing else;
\* it is never longer than the input list.
PassesChecks(tx_in) ==
    /\ Len(tx_in.Vs) > 0
    /\ Len(tx_in.Ls) > 0
    /\ Len(tx_in.Ls) = Len(tx_in.Rs)
    /\ tx_in.Vs[1] = RecoverCommitment(GetHashWithSalt(tx_in.nonce, RecoverSaltGamma0),
                                       RecoverValue0(tx_in))
C10_OutputIsThePassingInputs ==
    recover_status = "returned" =>
        LET passing == SelectSeq(tx_ins, PassesChecks)
        IN  /\ Len(recovered_tx_ins) = Len(passing)
            /\ Len(recovered_tx_ins) <= Len(tx_ins)
            /\ \A i \in 1..Len(passing) : recovered_tx_ins[i].index = passing[i].index
C10_Witness ==
    /\ recover_status = "returned"
    /\ Len(tx_ins) = 2
    /\ Len(recovered_tx_ins) = 2
    /\ recovered_tx_ins[1].index # recovered_tx_ins[2].index

\* C11: proof shape.  Every proof Prove returned, on the first attempt or after
\* retries (a zero challenge inside an inner-product round included), has
\* len(Ls) = len(Rs) = log2(round_up_pow2(k) * bits_per_value).
C11_ProofShape ==
    pc = "returned" =>
        /\ Len(proof.Ls) = Log2(concat_input_values_in_bits)
        /\ Len(proof.Rs) = Log2(concat_input_values_in_bits)

\* C12: challenge agreement.  For every proof Prove returned, the challenges y,
\* z, x, x_ip and the per-round challenges a fresh transcript yields from the
\* proof's public fields are the challenges the Prover used to build the proof.
ProverChallenges ==
    [y |-> local.y, z |-> local.z, x |-> local.x, x_ip |-> local.x_ip, ws |-> ipa.xs]
C12_ChallengeAgreement ==
    pc = "returned" => Build(proof, zeroed) = ProverChallenges

\* C13: transcript order.  In an attempt with no zero challenge the transcript
\* of Prove holds exactly, in this order, Vs[0..k), A, S, T1, T2, x, tau_x, mu,
\* t_hat and then L and R of each inner-product round, and the value in the
\* t_hat position is the t_hat = <l, r> stored in the returned proof.
RECURSIVE InterleavedRounds(_, _, _)
InterleavedRounds(Ls, Rs, i) ==
    IF i > Len(Ls) THEN <<>>
    ELSE <<PointItem(Ls[i]), PointItem(Rs[i])>> \o InterleavedRounds(Ls, Rs, i + 1)
DocumentedTranscript ==
    [i \in 1..Len(proof.Vs) |-> PointItem(proof.Vs[i])]
        \o <<PointItem(proof.A), PointItem(proof.S),
             PointItem(proof.T1), PointItem(proof.T2),
             ScalarItem(local.x), ScalarItem(proof.tau_x), ScalarItem(proof.mu),
             ScalarItem(proof.t_hat)>>
        \o InterleavedRounds(proof.Ls, proof.Rs, 1)
C13_TranscriptOrder ==
    (pc = "returned" /\ num_tries = 1) => transcript = DocumentedTranscript

\* C14: one-time initialisation.  Under every interleaving of the threads that
\* construct a RangeProof, the initialisation body (the library init and the
\* writes of the four static tables) is executed at most once.
C14_InitAtMostOnce ==
    /\ init_calls <= 1
    /\ \A k \in Tables : table_writes[k] <= 1

\* C15: the static tables are read-only once published.  After a thread has
\* observed m_is_initialized = true no thread writes a static table, and
\* m_is_initialized is true only when all four tables have been written.
ObservedInitialized == \E t \in Threads : thr[t] = "returned_fast"
C15_ReadOnlyOncePublished ==
    /\ [](m_is_initialized => \A k \in Tables : table_writes[k] >= 1)
    /\ [][ObservedInitialized => table_writes' = table_writes]_vars

\* C16: retry re-entry and budget.  A step of Prove goes to try_again exactly
\* when the challenge it derived (y, z, x, x_ip or a round challenge) is zero;
\* the step taken at try_again adds one to the try counter and either throws
\* or starts again at the commitment A (A and S are appended and y is derived
\* next); no other step changes the counter; and a returned proof comes from
\* an attempt in which no challenge was zero.
DerivesFromTranscript == pc \in {"derive_y", "derive_z", "derive_x", "derive_x_ip"}
C16_ReturnedWithoutZero ==
    pc = "returned" =>
        /\ local.y # 0 /\ local.z # 0 /\ local.x # 0 /\ local.x_ip # 0
        /\ \A i \in 1..Len(ipa.xs) : ipa.xs[i] # 0
        /\ Len(ipa.xs) = Log2(concat_input_values_in_bits)
        /\ num_tries \in 1..MaxProveTries
C16_RetryReentry ==
    /\ []C16_ReturnedWithoutZero
    /\ [][DerivesFromTranscript =>
            ((pc' = "try_again") <=> (GetHash(transcript, zeroed') = 0))]_vars
    /\ [][(pc = "ipa" /\ ipa.n_prime > 1) =>
            ((pc' = "try_again") <=> (GetHash(transcript', zeroed') = 0))]_vars
    /\ [][(ProveRunning /\ pc # "try_again") => num_tries' = num_tries]_vars
    /\ [][pc = "try_again" =>
            /\ num_tries' = num_tries + 1
            /\ \/ pc' = "thrown" /\ err' = TriesError
               \/ /\ pc' = "derive_y"
                  /\ transcript' = transcript \o <<PointItem(proof'.A), PointItem(proof'.S)>>
                  /\ proof'.A = Point(0, local'.alpha, aL, aR)]_vars
C16_Witness ==
    /\ pc = "returned"
    /\ num_tries = MaxProveTries

\* C17: the transcript is not reset on retry.  During a call nothing is ever
\* removed from the transcript; the step that abandons an attempt leaves the
\* transcript as the attempt built it, and the new attempt starts from exactly
\* that transcript (it appends its A and S to it); so every transcript whose
\* challenge was zero is a strict prefix of the transcript the new attempt
\* derives its challenges from.
IsPrefix(t, u) == Len(t) <= Len(u) /\ SubSeq(u, 1, Len(t)) = t
C17_ZeroedAreStrictPrefixes ==
    (ProveRunning /\ pc # "try_again") =>
        \A t \in zeroed : IsPrefix(t, transcript) /\ Len(t) < Len(transcript)
C17_TranscriptNotReset ==
    /\ []C17_ZeroedAreStrictPrefixes
    /\ [][ProveRunning => IsPrefix(transcript, transcript')]_vars
    /\ [][(DerivesFromTranscript /\ pc' = "try_again") => transcript' = transcript]_vars
    /\ [][(pc = "try_again" /\ pc' = "derive_y") =>
            transcript' = transcript \o <<PointItem(proof'.A), PointItem(proof'.S)>>]_vars
C17_Witness ==
    /\ pc = "derive_y"
    /\ num_tries = MaxProveTries
    /\ zeroed # {}
    /\ Len(transcript) > Len(vs) + 2

\* C18: expected round count.  The number of rounds Verify expects of a proof is
\* log2(round_up_pow2(len(Vs))) + log2(bits_per_value) for that proof, so a
\* batch of proofs with 1..max_input_values Vs and that many Ls and Rs is not
\* rejected by the size check.
RoundsOfProof(pr) == Log2(GetFirstPowerOf2GreaterOrEqTo(Len(pr.Vs))) + Log2(InputValueBits)
HasItsRounds(pr) ==
    /\ Len(pr.Vs) \in 1..MaxInputValues
    /\ Len(pr.Ls) = RoundsOfProof(pr)
    /\ Len(pr.Rs) = RoundsOfProof(pr)
C18_ExpectedRounds ==
    VerifyDone =>
        /\ \A i \in 1..Len(indexed_proofs) :
              Len(indexed_proofs[i].proof.Vs) \in 1..MaxInputValues
                  => verify.num_rounds = RoundsOfProof(indexed_proofs[i].proof)
        /\ (\A i \in 1..Len(indexed_proofs) : HasItsRounds(indexed_proofs[i].proof))
              => verify.stage # "sizes"

\* C19: bit-vector length.  For every value count k in 1..max_input_values,
\* a power of two or not, aL has round_up_pow2(k) * bits_per_value entries, all
\* of them bits and those after the k values zero; aR has the same length and
\* aR[i] = aL[i] - 1.
C19_BitVectorLength ==
    (ProveRunning \/ pc = "returned") =>
        /\ Len(aL) = GetFirstPowerOf2GreaterOrEqTo(Len(vs)) * InputValueBits
        /\ \A i \in 1..Len(aL) : aL[i] \in {0, 1}
        /\ \A i \in 1..Len(aL) : i > Len(vs) * InputValueBits => aL[i] = 0
        /\ Len(aR) = Len(aL)
        /\ \A i \in 1..Len(aR) : aR[i] = Sub(aL[i], 1)

\* C20: vector-length consistency.  In every attempt, for every value count, the
\* vectors combined element-wise to build the polynomials (aL, aR, sL, sR,
\* z_n_times_two_n, l0, l1, r0, r1) and the vectors l and r handed to the
\* inner-product argument all have the length MN = round_up_pow2(k) *
\* bits_per_value, the length passed as input_value_vec_len.
PolynomialVectors ==
    <<aL, aR, local.sL, local.sR,
      z_n_times_two_n(FirstNPow(local.z, concat_input_values_in_bits, 2)),
      local.l0, local.l1, local.r0, local.r1, local.l, local.r>>
C20_VectorLengths ==
    pc \in {"derive_x_ip", "ipa", "returned"} =>
        \A i \in 1..Len(PolynomialVectors) :
            Len(PolynomialVectors[i]) = concat_input_values_in_bits

\* C21: inner-product argument folding.  Called with l and r of length n, every
\* round halves the working length, adds one element to Ls and one to Rs,
\* appends that round's L and then that round's R to the transcript before the
\* round challenge is derived, and folds l and r to half the length; after
\* log2(n) rounds a and b are the single remaining elements of l and r and the
\* call succeeds; a zero round challenge ends the call with a and b unset.
Last(q) == q[Len(q)]
FullLength == Len(ipa.a_prime) = ipa.n_prime /\ Len(ipa.b_prime) = ipa.n_prime
C21_RoundStep ==
    (pc = "ipa" /\ ipa.n_prime > 1 /\ FullLength) =>
        /\ ipa'.n_prime = ipa.n_prime \div 2
        /\ Len(proof'.Ls) = Len(proof.Ls) + 1
        /\ Len(proof'.Rs) = Len(proof.Rs) + 1
        /\ transcript' = transcript \o <<PointItem(Last(proof'.Ls)),
                                         PointItem(Last(proof'.Rs))>>
        /\ (pc' = "try_again") <=> (GetHash(transcript', zeroed') = 0)
        /\ pc' = "try_again" => (proof'.a = proof.a /\ proof'.b = proof.b)
        /\ pc' # "try_again" =>
              /\ pc' = "ipa"
              /\ ipa'.round = ipa.round + 1
              /\ Len(ipa'.a_prime) = ipa'.n_prime
              /\ Len(ipa'.b_prime) = ipa'.n_prime
C21_LastStep ==
    (pc = "ipa" /\ ipa.n_prime <= 1 /\ FullLength) =>
        /\ pc' = "returned"
        /\ ipa.round = Log2(concat_input_values_in_bits)
        /\ proof'.a = ipa.a_prime[1]
        /\ proof'.b = ipa.b_prime[1]
C21_Folding == [][C21_RoundStep /\ C21_LastStep]_vars

\* C22: w_cache contents.  For R >= 1 round challenges, once the cache is built,
\* w_cache[i] is for every i in [0, 2^R) the product over the rounds j of ws[j]
\* if bit R-1-j of i is 1 and of inv_ws[j] if it is 0: one factor per round,
\* round 0 on the most significant bit.
BitOf(i, b) == (i \div Pow2(b)) % 2
RECURSIVE SelectedProduct(_, _, _, _)
SelectedProduct(i, ws, inv_ws, j) ==
    IF j >= Len(ws) THEN 1
    ELSE Mul(IF BitOf(i, Len(ws) - 1 - j) = 1 THEN ws[j + 1] ELSE inv_ws[j + 1],
             SelectedProduct(i, ws, inv_ws, j + 1))
C22_WCacheContents ==
    loop2.at = "done" =>
        /\ Len(loop2.w_cache) = Pow2(loop2.num_rounds)
        /\ \A i \in 0..(Pow2(loop2.num_rounds) - 1) :
              loop2.w_cache[i + 1] = SelectedProduct(i, loop2.ws, loop2.inv_ws, 0)
C22_Witness ==
    /\ loop2.at = "done"
    /\ loop2.num_rounds = MaxRounds
    /\ loop2.ws[1] # loop2.ws[2]
    /\ loop2.ws[2] # loop2.ws[3]

\* C23: the final check uses the aggregated terms.  Verify returns true exactly
\* when the terms accumulated over the proofs of the batch sum to the group
\* identity; over an empty batch nothing is accumulated, the sum is the
\* identity, and Verify returns true.
C23_FinalCheckOfEmptyBatch ==
    (VerifyDone /\ verify.stage = "loop2" /\ indexed_proofs = <<>>)
        => verify.result = "true"

\* C24: commitment form.  The commitment RecoverTxIns recomputes from the first
\* value and its blinding factor has the form of the Prover's V_0 = H * gamma_0
\* + G * v_0, so from the Prover's own v_0 and gamma_0 it equals Vs[0].
C24_CommitmentForm ==
    (ProveRunning \/ pc = "returned") =>
        RecoverCommitment(gammas[1], vs[1]) = proof.Vs[1]

\* C25: packing round trip.  The scalar Prove packs from the leading message
\* chunk m and the first value v0, (m << bits_per_value) | v0, is what
\* RecoverTxIns extracts from mu, and its mask and right shift give back v0 and
\* m: the mask covers the window of the value and the two shifts are equal.
RecoveredFromOwnProof ==
    /\ RecoverDone
    /\ pc = "returned"
    /\ tx_ins = <<ExportedTxIn(nonce)>>
C26_MessageSurvives ==
    (pc = "returned" /\ Len(vs) = 1) =>
        RecoveredEntry(ExportedTxIn(nonce)).message = message

\* the messages of C26 that hold no zero byte at the head of a chunk
NoLeadingZeroByte(msg) ==
    /\ Len(Msg1(msg)) > 0 => Msg1(msg)[1] # 0
    /\ Len(Msg2(msg)) > 0 => Msg2(msg)[1] # 0
C26_SurvivesWithoutLeadingZero ==
    (pc = "returned" /\ Len(vs) = 1 /\ NoLeadingZeroByte(message)) =>
        RecoveredEntry(ExportedTxIn(nonce)).message = message

\* C27: the trailing-message scalar.  For a proof over k >= 1 values the scalar
\* RecoverTxIns computes from tau_x, x and z is the msg2 Prove added to tau1,
\* also when k > 1.
ProvedTauX == pc \in {"derive_x_ip", "ipa", "returned"}
C27_Msg2Recovered ==
    ProvedTauX =>
        RecoverMsg2Scalar(ExportedTxIn(nonce)) = BytesToScalar(Msg2(message))
C27_Msg2RecoveredOfOneValue ==
    (ProvedTauX /\ Len(vs) = 1) =>
        RecoverMsg2Scalar(ExportedTxIn(nonce)) = BytesToScalar(Msg2(message))
C27_SeveralValues == ProvedTauX /\ Len(vs) > 1

\* C28: domain-separated derivation.  The salts of Prove (alpha 1, rho 2,
\* tau1 3, tau2 4, gamma_i 100 + i) are pairwise distinct for every i below
\* max_input_values, the scalars a proof derives with them are pairwise
\* distinct, and RecoverTxIns derives alpha, rho, tau1, tau2 and the gamma of
\* the first value with the salts of Prove, so that it obtains Prove's scalars.
ProveSalts ==
    {ProveSaltAlpha, ProveSaltRho, ProveSaltTau1, ProveSaltTau2}
        \cup {GammaSalt + i : i \in 0..(MaxInputValues - 1)}
\* the scalars Prove took from the nonce, the message parts removed
ProveDerived ==
    <<Sub(local.alpha, PackMsg1V0(message, vs[1])), local.rho,
      Sub(local.tau1, BytesToScalar(Msg2(message))), local.tau2>> \o gammas
RecoverDerived(n) ==
    <<GetHashWithSalt(n, RecoverSaltAlpha), GetHashWithSalt(n, RecoverSaltRho),
      GetHashWithSalt(n, RecoverSaltTau1), GetHashWithSalt(n, RecoverSaltTau2),
      GetHashWithSalt(n, RecoverSaltGamma0)>>
C28_DomainSeparation ==
    /\ Cardinality(ProveSalts) = 4 + MaxInputValues
    /\ <<RecoverSaltAlpha, RecoverSaltRho, RecoverSaltTau1, RecoverSaltTau2,
         RecoverSaltGamma0>>
          = <<ProveSaltAlpha, ProveSaltRho, ProveSaltTau1, ProveSaltTau2, GammaSalt>>
    /\ ProvedTauX =>
          /\ \A i, j \in 1..Len(ProveDerived) :
                i # j => ProveDerived[i] # ProveDerived[j]
          /\ \A i \in 1..Len(gammas) :
                gammas[i] = GetHashWithSalt(nonce, GammaSalt + (i - 1))
          /\ RecoverDerived(nonce) = SubSeq(ProveDerived, 1, 5)
C28_Witness ==
    /\ ProvedTauX
    /\ Len(gammas) = MaxInputValues
    /\ Len(message) > MsgChunkBytes

\* C29: the self-check of Prove.  A proof Prove completes has t_hat equal to
\* t0 + t1*x + t2*x^2 computed from the coefficients; when the two differ Prove
\* throws "equality didn't hold in (60)" in that step, without another try and
\* without completing the proof; and the two differ only when l0, l1, r0, r1 do
\* not have one length, never with vectors of one length.
TOfX(loc, x) ==
    Add(Add(VSum(VMul(loc.l0, loc.r0)), Mul(loc.t1, x)), Mul(loc.t2, Square(x)))
SameLengths ==
    /\ Len(local.l0) = Len(local.l1)
    /\ Len(local.l0) = Len(local.r0)
    /\ Len(local.l0) = Len(local.r1)
SelfCheckError == "equality didn't hold in (60)"
C29_CompletedAgrees ==
    /\ (ProvedTauX /\ err = "none") => proof.t_hat = TOfX(local, local.x)
    /\ err = SelfCheckError =>
          /\ pc = "thrown"
          /\ proof.t_hat # TOfX(local, local.x)
          /\ ~SameLengths
C29_MismatchThrows ==
    (pc = "derive_x" /\ pc' \notin {"derive_x", "try_again"}) =>
        IF proof'.t_hat # TOfX(local', local'.x)
        THEN /\ pc' = "thrown"
             /\ err' = SelfCheckError
             /\ num_tries' = num_tries
             /\ proof'.tau_x = proof.tau_x /\ proof'.mu = proof.mu
             /\ transcript' = transcript
        ELSE pc' = "derive_x_ip"
====
